---- MODULE Spec2Model ----
(***************************************************************************)
(* Model of bump_version.rs: the tag-sync step (ensure_current_version_tag) *)
(* and the version bump of main, run by one or two invocations against one *)
(* repository and one pubspec.yaml.                                        *)
(*                                                                         *)
(* Text is modelled at character level: a string is a sequence of          *)
(* one-character strings.  Three characters abbreviate longer text:        *)
(*   "K"  the literal `version:`                                           *)
(*   "N"  a complete other top-level entry such as `name: app`             *)
(*   " "  one whitespace character other than a newline                    *)
(* Numbers are kept as decimal digit strings, so that u64 keeps its real   *)
(* width (2^64 does not fit a TLC integer).                                *)
(***************************************************************************)
EXTENDS Integers, Sequences, FiniteSets, TLC

\* ------------------------------------------------------------------ bounds
MaxRuns == 2
MaxCommits == 1
\* the largest --max-commits drawn (the default is 50)
MaxCap == 2
\* how many tags refs/tags holds at most where the tags vary
MaxTags == 3
\* how many commits of a history have a message that starts with `Merge `
MaxMergeMsgs == 2

Procs == {1, 2}

\* -------------------------------------------------------------- characters
DigitSeq == <<"0", "1", "2", "3", "4", "5", "6", "7", "8", "9">>
DigitChars == {DigitSeq[i] : i \in 1..10}
Letters == {"a", "b", "v"}

IsDigit(c) == c \in DigitChars
DigitVal(c) == (CHOOSE i \in 1..10 : DigitSeq[i] = c) - 1
\* char::is_whitespace, as used by \s and str::trim
IsWhitespace(c) == c \in {" ", "\n"}
\* the identifier characters of semver: [0-9A-Za-z-]
IsIdentChar(c) == IsDigit(c) \/ c \in Letters \/ c = "-"

AllDigits(s) == \A i \in 1..Len(s) : IsDigit(s[i])

\* ------------------------------------------------------- sequence helpers
IndexOf(s, c) ==
    IF \E i \in 1..Len(s) : s[i] = c
    THEN CHOOSE i \in 1..Len(s) : s[i] = c /\ \A j \in 1..(i - 1) : s[j] # c
    ELSE 0

RECURSIVE SplitOn(_, _)
\* str::split(c): the pieces between occurrences of c (an empty string has one
\* empty piece)
SplitOn(s, c) ==
    LET i == IndexOf(s, c)
    IN  IF i = 0 THEN <<s>>
        ELSE <<SubSeq(s, 1, i - 1)>> \o SplitOn(SubSeq(s, i + 1, Len(s)), c)

\* str::trim
Trim(s) ==
    LET keep == {i \in 1..Len(s) : ~IsWhitespace(s[i])}
    IN  IF keep = {} THEN <<>>
        ELSE SubSeq(s, CHOOSE i \in keep : \A j \in keep : i <= j,
                       CHOOSE i \in keep : \A j \in keep : j <= i)

\* ------------------------------------------------ decimal strings and u64
\* u64::MAX = 18446744073709551615
U64_MAX == <<"1", "8", "4", "4", "6", "7", "4", "4", "0", "7",
             "3", "7", "0", "9", "5", "5", "1", "6", "1", "5">>

RECURSIVE StripZeros(_)
\* the canonical decimal form of a digit string
StripZeros(s) ==
    IF Len(s) > 1 /\ s[1] = "0" THEN StripZeros(Tail(s)) ELSE s

RECURSIVE LexLeq(_, _)
LexLeq(a, b) ==
    IF a = <<>> THEN TRUE
    ELSE IF DigitVal(a[1]) < DigitVal(b[1]) THEN TRUE
    ELSE IF DigitVal(a[1]) > DigitVal(b[1]) THEN FALSE
    ELSE LexLeq(Tail(a), Tail(b))

\* a <= b for canonical decimal strings
DecLeq(a, b) == Len(a) < Len(b) \/ (Len(a) = Len(b) /\ LexLeq(a, b))

RECURSIVE DecInc(_)
\* n + 1 on a canonical decimal string (unbounded)
DecInc(s) ==
    IF s = <<>> THEN <<"1">>
    ELSE LET last == s[Len(s)]
             init == SubSeq(s, 1, Len(s) - 1)
         IN  IF last = "9" THEN DecInc(init) \o <<"0">>
             ELSE init \o <<DigitSeq[DigitVal(last) + 2]>>

\* str::parse::<u64>: digits only (a leading "+" cannot occur in a semver
\* identifier), value at most u64::MAX; the value is returned in canonical form
ParsesAsU64(s) == s # <<>> /\ AllDigits(s) /\ DecLeq(StripZeros(s), U64_MAX)
U64Value(s) == StripZeros(s)

\* ------------------------------------------------------------------ semver
\* semver::Version, numbers as canonical decimal strings
NoVersion == [major |-> <<>>, minor |-> <<>>, patch |-> <<>>,
              pre |-> <<>>, build |-> <<>>]

\* a numeric identifier: digits, no leading zero, at most u64::MAX
ValidNumeric(s) ==
    /\ s # <<>>
    /\ AllDigits(s)
    /\ (Len(s) = 1 \/ s[1] # "0")
    /\ DecLeq(s, U64_MAX)

\* a prerelease identifier: [0-9A-Za-z-]+, numeric ones without leading zero
ValidPreIdent(s) ==
    /\ s # <<>>
    /\ \A i \in 1..Len(s) : IsIdentChar(s[i])
    /\ (AllDigits(s) => (Len(s) = 1 \/ s[1] # "0"))

\* a build identifier: [0-9A-Za-z-]+
ValidBuildIdent(s) ==
    /\ s # <<>>
    /\ \A i \in 1..Len(s) : IsIdentChar(s[i])

\* semver::Version::parse: MAJOR.MINOR.PATCH[-PRE][+BUILD], nothing else
Version_parse(s) ==
    LET plus  == IndexOf(s, "+")
        front == IF plus = 0 THEN s ELSE SubSeq(s, 1, plus - 1)
        build == IF plus = 0 THEN <<>> ELSE SubSeq(s, plus + 1, Len(s))
        minus == IndexOf(front, "-")
        core  == IF minus = 0 THEN front ELSE SubSeq(front, 1, minus - 1)
        pre   == IF minus = 0 THEN <<>> ELSE SubSeq(front, minus + 1, Len(front))
        nums  == SplitOn(core, ".")
        pres  == SplitOn(pre, ".")
        blds  == SplitOn(build, ".")
        ok    == /\ Len(nums) = 3
                 /\ \A i \in 1..3 : ValidNumeric(nums[i])
                 /\ (minus # 0 => \A i \in 1..Len(pres) : ValidPreIdent(pres[i]))
                 /\ (plus # 0 => \A i \in 1..Len(blds) : ValidBuildIdent(blds[i]))
    IN  IF ok
        THEN [ok |-> TRUE,
              v |-> [major |-> nums[1], minor |-> nums[2], patch |-> nums[3],
                     pre |-> pre, build |-> build]]
        ELSE [ok |-> FALSE, v |-> NoVersion]

\* impl Display for Version (v.to_string())
Version_to_string(v) ==
    v.major \o <<".">> \o v.minor \o <<".">> \o v.patch
      \o (IF v.pre = <<>> THEN <<>> ELSE <<"-">> \o v.pre)
      \o (IF v.build = <<>> THEN <<>> ELSE <<"+">> \o v.build)

\* --------------------------------------------------------- the bump rule
VersionParts == {"Major", "Minor", "Patch", "Build"}

\* current_build_num: the build metadata as u64, 0 if absent or not numeric
current_build_num(v) ==
    IF v.build = <<>> THEN <<"0">>
    ELSE IF ParsesAsU64(v.build) THEN U64Value(v.build) ELSE <<"0">>

\* `x += 1` / `x + 1` on u64 without overflow checks: wraps at u64::MAX
U64_add_one(n) == IF n = U64_MAX THEN <<"0">> ELSE DecInc(n)

\* the number that the match on args.part increments
IncrementedField(v, part) ==
    CASE part = "Major" -> v.major
      [] part = "Minor" -> v.minor
      [] part = "Patch" -> v.patch
      [] part = "Build" -> current_build_num(v)

\* the increment overflows u64: a panic when the script is built with
\* overflow checks (debug), a wrap to 0 otherwise (release)
BumpOverflows(v, part) == IncrementedField(v, part) = U64_MAX

\* the match on args.part
BumpedVersion(v, part) ==
    CASE part = "Major" ->
           [major |-> U64_add_one(v.major), minor |-> <<"0">>, patch |-> <<"0">>,
            pre |-> <<>>, build |-> <<"1">>]
      [] part = "Minor" ->
           [major |-> v.major, minor |-> U64_add_one(v.minor), patch |-> <<"0">>,
            pre |-> <<>>, build |-> <<"1">>]
      [] part = "Patch" ->
           [major |-> v.major, minor |-> v.minor, patch |-> U64_add_one(v.patch),
            pre |-> <<>>, build |-> <<"1">>]
      [] part = "Build" ->
           [major |-> v.major, minor |-> v.minor, patch |-> v.patch,
            pre |-> v.pre, build |-> U64_add_one(current_build_num(v))]

\* ------------------------------------------ the regex (?m)^version:\s*(.+)$
NoMatch == [found |-> FALSE, start |-> 0, cap |-> 0, end |-> 0]

\* the last character of the line that holds position k
LineEnd(content, k) ==
    IF \E j \in k..Len(content) : content[j] = "\n"
    THEN (CHOOSE j \in k..Len(content) :
              content[j] = "\n" /\ \A h \in k..(j - 1) : content[h] # "\n") - 1
    ELSE Len(content)

\* the match that starts at position i, if any: `version:` at the start of a
\* line, \s* greedy over whitespace (newlines included), (.+) at least one
\* character other than a newline, up to the end of its line
MatchAt(content, i) ==
    IF ~(content[i] = "K" /\ (i = 1 \/ content[i - 1] = "\n")) THEN NoMatch
    ELSE
      LET nonws == {j \in (i + 1)..Len(content) : ~IsWhitespace(content[j])}
          \* \s* gives characters back until (.+) finds one that is no newline
          back  == {j \in (i + 1)..Len(content) : content[j] = " "}
      IN  IF nonws # {}
          THEN LET c == CHOOSE j \in nonws : \A h \in nonws : j <= h
               IN  [found |-> TRUE, start |-> i, cap |-> c,
                    end |-> LineEnd(content, c)]
          ELSE IF back # {}
          THEN LET c == CHOOSE j \in back : \A h \in back : h <= j
               IN  [found |-> TRUE, start |-> i, cap |-> c,
                    end |-> LineEnd(content, c)]
          ELSE NoMatch

\* the leftmost match in the text (Regex::captures, Regex::replace)
version_line_regex(content) ==
    LET starts == {i \in 1..Len(content) : MatchAt(content, i).found}
    IN  IF starts = {} THEN NoMatch
        ELSE MatchAt(content, CHOOSE i \in starts : \A j \in starts : i <= j)

\* caps[1]
Capture(content, m) == SubSeq(content, m.cap, m.end)

\* Regex::replace with `version: {new}`: the first match only
ReplaceMatch(content, m, new_version_string) ==
    SubSeq(content, 1, m.start - 1)
      \o <<"K", " ">> \o new_version_string
      \o SubSeq(content, m.end + 1, Len(content))

\* ------------------------------------------------ reading the version
\* Option<String>
None == [some |-> FALSE, val |-> <<>>]
Some(s) == [some |-> TRUE, val |-> s]

\* a YAML comment starts at a `#` that opens the line or follows whitespace
StripComment(line) ==
    LET hs == {j \in 1..Len(line) :
                 line[j] = "#" /\ (j = 1 \/ IsWhitespace(line[j - 1]))}
    IN  IF hs = {} THEN line
        ELSE SubSeq(line, 1, (CHOOSE j \in hs : \A h \in hs : j <= h) - 1)

\* what one line of a block mapping is: blank, the `version:` entry with its
\* plain scalar, another entry, an indented continuation of the scalar of the
\* entry above, or text that a block mapping cannot hold
YamlLine(raw) ==
    LET line == StripComment(raw)
        text == Trim(line)
        hasKey == \E j \in 1..Len(text) : text[j] \in {"K", "N"}
    IN  IF text = <<>> THEN [kind |-> "blank", text |-> <<>>]
        ELSE IF line[1] = " "
        THEN IF hasKey THEN [kind |-> "bad", text |-> <<>>]
             ELSE [kind |-> "cont", text |-> text]
        ELSE IF line[1] = "N" THEN [kind |-> "other", text |-> <<>>]
        ELSE IF line[1] = "K" /\ (Len(line) = 1 \/ line[2] = " ")
        THEN [kind |-> "key", text |-> Trim(Tail(line))]
        ELSE [kind |-> "bad", text |-> <<>>]

RECURSIVE YamlFold(_, _, _)
\* the lines of the document in order; acc.cur is the entry a continuation
\* line belongs to
YamlFold(lines, i, acc) ==
    IF i > Len(lines) \/ ~acc.ok THEN acc
    ELSE
      LET l == YamlLine(lines[i])
      IN  CASE l.kind = "blank" -> YamlFold(lines, i + 1, acc)
            [] l.kind = "bad" -> [acc EXCEPT !.ok = FALSE]
            [] l.kind = "other" ->
                 YamlFold(lines, i + 1, [acc EXCEPT !.cur = "N"])
            [] l.kind = "key" ->
                 IF acc.seen THEN [acc EXCEPT !.ok = FALSE]   \* duplicate field
                 ELSE YamlFold(lines, i + 1,
                        [acc EXCEPT !.cur = "K", !.seen = TRUE, !.val = l.text])
            [] l.kind = "cont" ->
                 IF acc.cur = "none" THEN [acc EXCEPT !.ok = FALSE]
                 ELSE IF acc.cur = "N" THEN YamlFold(lines, i + 1, acc)
                 ELSE YamlFold(lines, i + 1,
                        [acc EXCEPT !.val = IF acc.val = <<>> THEN l.text
                                            ELSE acc.val \o <<" ">> \o l.text])

\* serde_yaml::from_str::<PubspecYaml>(content): Err, or Ok with the top-level
\* `version` scalar (None when the key is missing or null).  Defined for
\* documents that are block mappings starting in column 0, written with the
\* characters of this model.
serde_yaml_from_str(content) ==
    LET r == YamlFold(SplitOn(content, "\n"), 1,
                      [ok |-> TRUE, seen |-> FALSE, cur |-> "none", val |-> <<>>])
    IN  IF ~r.ok \/ r.cur = "none" THEN [ok |-> FALSE, version |-> None]
        ELSE [ok |-> TRUE,
              version |-> IF r.seen /\ r.val # <<>> THEN Some(r.val) ELSE None]

\* read_pubspec_version: the YAML value, else the first regex capture; trimmed
\* and not empty
read_pubspec_version(content) ==
    LET doc == serde_yaml_from_str(content)
        m   == version_line_regex(content)
    IN  IF doc.ok /\ doc.version.some /\ Trim(doc.version.val) # <<>>
        THEN Some(Trim(doc.version.val))
        ELSE IF m.found /\ Trim(Capture(content, m)) # <<>>
        THEN Some(Trim(Capture(content, m)))
        ELSE None

\* =================================================================== state
VARIABLES
    pubspec,          \* the text of pubspec.yaml
    readable,         \* fs::read_to_string(pubspec_path) succeeds
    in_repo,          \* gix::discover(start_dir) succeeds
    head,             \* the commit HEAD points at, 0 when HEAD is unborn
    tags,             \* refs/tags: a set of [name, target]
    overflow_checks,  \* the script was built with overflow checks (debug)
    inv,              \* per process: the running invocation of main
    runs,             \* invocations started so far
    created,          \* names of the tags created by tag_reference so far
    graph,            \* the commits of the object database: parents, message
    cl                \* the running invocation of gen_changelog's main

vars == <<pubspec, readable, in_repo, head, tags, overflow_checks, inv, runs,
          created, graph, cl>>

TagPrefixes == {"V", "None"}

\* an invocation that has not started
IdleInv ==
    [pc |-> "idle", part |-> "-", tag_prefix |-> "-",
     version_str |-> <<>>, tag_plain |-> <<>>,
     exists_plain |-> "-", exists_v |-> "-", head_id |-> 0, sync |-> "-",
     content |-> <<>>, old_version_str |-> <<>>, new_version_string |-> <<>>,
     new_content |-> <<>>, result |-> "-"]


\* the tag name with the build metadata left in
TagBase_WithBuild(v) ==
    v.major \o <<".">> \o v.minor \o <<".">> \o v.patch
      \o (IF v.pre = <<>> THEN <<>> ELSE <<"-">> \o v.pre)
      \o (IF v.build = <<>> THEN <<>> ELSE <<"+">> \o v.build)

\* ------------------------------------------------------------ tag names
\* the tag name: semver core plus optional prerelease, no build metadata
TagBase(v) ==
    v.major \o <<".">> \o v.minor \o <<".">> \o v.patch
      \o (IF v.pre = <<>> THEN <<>> ELSE <<"-">> \o v.pre)

tag_v(base) == <<"v">> \o base

\* the preference dropped: always the bare name
preferred_tag_Plain(tag_prefix, base) == base

preferred_tag(tag_prefix, base) ==
    IF tag_prefix = "V" THEN tag_v(base) ELSE base

\* tag_exists: refs/tags/{tag} is found
tag_exists(refs, tag) == \E t \in refs : t.name = tag


\* the two checks joined by `&&` instead of `||`
ExistenceCheckOutcome_And(which, exists) ==
    IF which = "plain" THEN (IF exists THEN "check_v" ELSE "head_id")
    ELSE (IF exists THEN "AlreadyTagged" ELSE "head_id")

\* `tag_exists(plain)? || tag_exists(v)?`: where the run goes after one check
ExistenceCheckOutcome(which, exists) ==
    IF exists THEN "AlreadyTagged"
    ELSE IF which = "plain" THEN "check_v" ELSE "head_id"


\* the result of ensure_current_version_tag dropped instead of propagated
AfterTagSync_Ignore(sync) == "main_read"

\* `ensure_current_version_tag(..)?` in main: an Err ends the invocation, Ok
\* goes on to the bump
AfterTagSync(sync) ==
    IF sync \in {"ReadFailed", "TagCreationFailed"} THEN "done" ELSE "main_read"


\* the closure with `unwrap_or_default` in place of the panic: 0.0.0 is bumped
Closure_Default(old_version_str, part, checks) ==
    LET pv == Version_parse(old_version_str)
        v  == IF pv.ok THEN pv.v
              ELSE [major |-> <<"0">>, minor |-> <<"0">>, patch |-> <<"0">>,
                    pre |-> <<>>, build |-> <<>>]
    IN  IF checks /\ BumpOverflows(v, part)
        THEN [panic |-> "Overflow", new |-> <<>>]
        ELSE [panic |-> "-", new |-> Version_to_string(BumpedVersion(v, part))]

\* the closure given to Regex::replace: parse or panic, bump, format
Closure(old_version_str, part, checks) ==
    LET pv == Version_parse(old_version_str)
    IN  IF ~pv.ok THEN [panic |-> "InvalidSemver", new |-> <<>>]
        ELSE IF checks /\ BumpOverflows(pv.v, part)
        THEN [panic |-> "Overflow", new |-> <<>>]
        ELSE [panic |-> "-", new |-> Version_to_string(BumpedVersion(pv.v, part))]

\* ------------------------------------------------------- initial states
\* `name: app`, `version: 1.2.3+4`, another entry
Pubspec_Plain ==
    <<"N", "\n", "K", " ", "1", ".", "2", ".", "3", "+", "4", "\n", "N">>
\* a prerelease and a build that is no number
Pubspec_Pre ==
    <<"K", " ", "1", ".", "2", ".", "3", "-", "a", "+", "b">>
\* a later line that also starts with `version:`
Pubspec_TwoLines ==
    <<"K", " ", "1", ".", "2", ".", "3", "\n", "K", " ", "2", ".", "0", ".",
      "0", "+", "7">>
\* the scalar on the line after the key
Pubspec_Folded ==
    <<"K", "\n", " ", "1", ".", "2", ".", "3", "+", "4", "\n", "N">>
\* no version entry
Pubspec_NoVersion ==
    <<"N">>
\* not semver, trailing whitespace
Pubspec_Invalid ==
    <<"K", " ", "1", ".", "2", " ">>
\* a trailing comment
Pubspec_Comment ==
    <<"K", " ", "1", ".", "2", ".", "3", " ", "#">>
\* u64::MAX as major and as build number
Pubspec_Max ==
    <<"K", " ", "1", "8", "4", "4", "6", "7", "4", "4", "0", "7", "3", "7",
      "0", "9", "5", "5", "1", "6", "1", "5", ".", "2", ".", "3", "+", "1",
      "8", "4", "4", "6", "7", "4", "4", "0", "7", "3", "7", "0", "9", "5",
      "5", "1", "6", "1", "5">>
\* an empty value
Pubspec_Blank ==
    <<"N", "\n", "K", " ">>
\* a numeric build above u64::MAX
Pubspec_BigBuild ==
    <<"K", " ", "0", ".", "0", ".", "9", "+", "1", "8", "4", "4", "6", "7",
      "4", "4", "0", "7", "3", "7", "0", "9", "5", "5", "1", "6", "1", "6">>
\* a build number with leading zeros
Pubspec_ZeroBuild ==
    <<"K", " ", "1", ".", "2", ".", "3", "+", "0", "0", "7">>

Pubspecs ==
    {Pubspec_Plain, Pubspec_Pre, Pubspec_TwoLines, Pubspec_Folded,
     Pubspec_NoVersion, Pubspec_Invalid, Pubspec_Comment, Pubspec_Max,
     Pubspec_Blank, Pubspec_BigBuild, Pubspec_ZeroBuild}

\* the manifests of the runs with two invocations at a time, and the parts
\* they bump: Patch moves on to a version without a tag, Build stays on the
\* tagged version
RacePubspecs == {Pubspec_Plain, Pubspec_Comment}
RaceParts == {"Patch", "Build"}

Tag_1_2_3 == <<"1", ".", "2", ".", "3">>

\* what refs/tags holds at the start: nothing, or version 1.2.3 tagged by hand
\* under one of the two names
InitialTags ==
    {{}, {[name |-> Tag_1_2_3, target |-> 1]},
         {[name |-> tag_v(Tag_1_2_3), target |-> 1]}}

\* the first line of a commit message, in tokens: "M" stands for the literal
\* `Merge ` and "x" for any other text
Msg_Plain == <<"x">>
Msg_Merge == <<"M", "x">>

\* a commit made on top of `parent` (0: no parent) with an ordinary message
NewCommit(parent) ==
    [parents |-> IF parent = 0 THEN <<>> ELSE <<parent>>,
     first_line |-> Msg_Plain]

\* a history of n commits, each the only child of the one before:
\* commit ids are the indices of `graph`
RECURSIVE LinearGraph(_)
LinearGraph(n) ==
    IF n = 0 THEN <<>> ELSE Append(LinearGraph(n - 1), NewCommit(n - 1))

\* no response of the Messages endpoint yet
NoResponse ==
    [send |-> "-", json |-> FALSE, error |-> FALSE, text |-> None]

\* a changelog invocation that has not started
IdleLog ==
    [pc |-> "idle", api_key |-> "-", tag |-> None, max_commits |-> 0,
     current_tag |-> None, prev_tag |-> None, sorted |-> <<>>,
     stop_at |-> 0, lines |-> <<>>, git_log |-> <<>>,
     outcome |-> NoResponse, changelog |-> <<>>, printed |-> FALSE,
     result |-> "-"]

InitWith(manifests) ==
    /\ pubspec \in manifests
    /\ readable \in BOOLEAN
    /\ in_repo \in BOOLEAN
    /\ head \in {0, 1}
    /\ tags \in InitialTags
    /\ overflow_checks \in BOOLEAN
    \* outside a repository there are no refs
    /\ (~in_repo => head = 0 /\ tags = {})
    \* the build profile shows only where an increment can overflow, and the
    \* text of a file that cannot be read shows nowhere
    /\ (overflow_checks => pubspec = Pubspec_Max)
    /\ (~readable => pubspec = Pubspec_Plain /\ tags = {})
    /\ inv = [p \in Procs |-> IdleInv]
    /\ runs = 0
    /\ created = {}
    /\ graph = LinearGraph(head)
    /\ cl = IdleLog

Init == InitWith(RacePubspecs)
InitSeq == InitWith(Pubspecs)

\* ================================================================ actions
Set(p, r) == inv' = [inv EXCEPT ![p] = r]

\* the end of ensure_current_version_tag with outcome `sync`
EndSync(r, sync) ==
    [r EXCEPT !.sync = sync,
              !.pc = AfterTagSync(sync),
              !.result = IF AfterTagSync(sync) = "done" THEN "TagSyncError"
                         ELSE "-"]

\* a bump invocation starts in the lowest free process slot: Args::parse, then
\* gix::discover(start_dir) (whether the directory is in a repository does not
\* change afterwards).  args.part is drawn in MainRead, where it is first used.
Start(p) ==
    /\ inv[p].pc = "idle"
    /\ \A q \in Procs : q < p => inv[q].pc # "idle"
    /\ runs < MaxRuns
    /\ \E prefix \in TagPrefixes :
         LET r == [IdleInv EXCEPT !.tag_prefix = prefix]
         IN  Set(p, IF in_repo THEN [r EXCEPT !.pc = "sync_read"]
                    ELSE EndSync(r, "NotARepo"))
    /\ runs' = runs + 1
    /\ UNCHANGED <<graph, cl, pubspec, readable, in_repo, head, tags, overflow_checks,
                   created>>

\* tag-sync reads the manifest, finds the version and derives the tag names
SyncRead(p) ==
    /\ inv[p].pc = "sync_read"
    /\ LET version == read_pubspec_version(pubspec)
           pv == Version_parse(version.val)
       IN  Set(p, IF ~readable THEN EndSync(inv[p], "ReadFailed")
                  ELSE IF ~version.some THEN EndSync(inv[p], "NoVersion")
                  ELSE IF ~pv.ok THEN EndSync(inv[p], "InvalidVersion")
                  ELSE [inv[p] EXCEPT !.version_str = version.val,
                                      !.tag_plain = TagBase(pv.v),
                                      !.pc = "check_plain"])
    /\ UNCHANGED <<graph, cl, pubspec, readable, in_repo, head, tags, overflow_checks,
                   runs, created>>

\* one of the two existence checks has been made with answer e
Checked(r, which, e) ==
    LET out == ExistenceCheckOutcome(which, e)
        seen == IF which = "plain"
                THEN [r EXCEPT !.exists_plain = IF e THEN "true" ELSE "false"]
                ELSE [r EXCEPT !.exists_v = IF e THEN "true" ELSE "false"]
    IN  IF out = "AlreadyTagged" THEN EndSync(seen, "AlreadyTagged")
        ELSE [seen EXCEPT !.pc = out]

\* tag_exists(&repo, &tag_plain)
CheckPlain(p) ==
    /\ inv[p].pc = "check_plain"
    /\ Set(p, Checked(inv[p], "plain", tag_exists(tags, inv[p].tag_plain)))
    /\ UNCHANGED <<graph, cl, pubspec, readable, in_repo, head, tags, overflow_checks,
                   runs, created>>

\* tag_exists(&repo, &tag_v)
CheckV(p) ==
    /\ inv[p].pc = "check_v"
    /\ Set(p, Checked(inv[p], "v", tag_exists(tags, tag_v(inv[p].tag_plain))))
    /\ UNCHANGED <<graph, cl, pubspec, readable, in_repo, head, tags, overflow_checks,
                   runs, created>>

\* repo.head_id()
HeadId(p) ==
    /\ inv[p].pc = "head_id"
    /\ Set(p, IF head = 0 THEN EndSync(inv[p], "UnbornHead")
              ELSE [inv[p] EXCEPT !.head_id = head, !.pc = "create"])
    /\ UNCHANGED <<graph, cl, pubspec, readable, in_repo, head, tags, overflow_checks,
                   runs, created>>

\* the reference store rewritten with the new tag alone
Create_Prunes(p) ==
    /\ inv[p].pc = "create"
    /\ LET name == preferred_tag(inv[p].tag_prefix, inv[p].tag_plain)
       IN  /\ tags' = {[name |-> name, target |-> inv[p].head_id]}
           /\ created' = created \cup {name}
           /\ Set(p, EndSync(inv[p], "Created"))
    /\ UNCHANGED <<graph, cl, pubspec, readable, in_repo, head, overflow_checks, runs>>

\* repo.tag_reference(&preferred_tag, head_id, PreviousValue::MustNotExist)
Create(p) ==
    /\ inv[p].pc = "create"
    /\ LET name == preferred_tag(inv[p].tag_prefix, inv[p].tag_plain)
       IN  IF tag_exists(tags, name)
           THEN /\ Set(p, EndSync(inv[p], "TagCreationFailed"))
                /\ UNCHANGED <<tags, created>>
           ELSE /\ tags' = tags \cup {[name |-> name, target |-> inv[p].head_id]}
                /\ created' = created \cup {name}
                /\ Set(p, EndSync(inv[p], "Created"))
    /\ UNCHANGED <<graph, cl, pubspec, readable, in_repo, head, overflow_checks, runs>>

\* main reads the manifest and runs the replace for the requested part
MainRead(p, parts) ==
    /\ inv[p].pc = "main_read"
    /\ \E part \in parts :
         LET m == version_line_regex(pubspec)
             old == Trim(Capture(pubspec, m))
             c == Closure(old, part, overflow_checks)
             r == [inv[p] EXCEPT !.part = part]
         IN  Set(p, IF ~readable
                    THEN [r EXCEPT !.result = "ReadError", !.pc = "done"]
                    ELSE IF ~m.found
                    THEN [r EXCEPT !.content = pubspec,
                                   !.result = "NoVersionLine", !.pc = "done"]
                    ELSE IF c.panic # "-"
                    THEN [r EXCEPT !.content = pubspec,
                                   !.old_version_str = old,
                                   !.result = c.panic, !.pc = "done"]
                    ELSE [r EXCEPT !.content = pubspec,
                                   !.old_version_str = old,
                                   !.new_version_string = c.new,
                                   !.new_content = ReplaceMatch(pubspec, m, c.new),
                                   !.pc = "write"])
    /\ UNCHANGED <<graph, cl, pubspec, readable, in_repo, head, tags, overflow_checks,
                   runs, created>>

\* fs::write(pubspec_path, new_content)
Write(p) ==
    /\ inv[p].pc = "write"
    /\ pubspec' = inv[p].new_content
    /\ Set(p, [inv[p] EXCEPT !.result = "Bumped", !.pc = "done"])
    /\ UNCHANGED <<graph, cl, readable, in_repo, head, tags, overflow_checks, runs,
                   created>>

\* the process exits
Exit(p) ==
    /\ inv[p].pc = "done"
    /\ Set(p, IdleInv)
    /\ UNCHANGED <<graph, cl, pubspec, readable, in_repo, head, tags, overflow_checks,
                   runs, created>>

\* somebody commits: HEAD moves to a new commit
Commit ==
    /\ in_repo
    /\ head < MaxCommits
    /\ head' = Len(graph) + 1
    /\ graph' = Append(graph, NewCommit(head))
    /\ UNCHANGED <<cl, pubspec, readable, in_repo, tags, overflow_checks, inv, runs,
                   created>>

\* the steps of an invocation that has started
Step(p, parts) ==
    \/ SyncRead(p)
    \/ CheckPlain(p)
    \/ CheckV(p)
    \/ HeadId(p)
    \/ Create(p)
    \/ MainRead(p, parts)
    \/ Write(p)
    \/ Exit(p)

\* no other invocation is running
Alone(p) == \A q \in Procs \ {p} : inv[q].pc = "idle"

\* an invocation starts when the one before it has exited
StartSeq(p) == Alone(p) /\ Start(p)

\* up to two invocations at a time, interleaved step by step
Next == (\E p \in Procs : Start(p) \/ Step(p, RaceParts)) \/ Commit

\* invocations one after the other
NextSeq == (\E p \in Procs : StartSeq(p) \/ Step(p, VersionParts)) \/ Commit

Spec == Init /\ [][Next]_vars
SpecSeq == InitSeq /\ [][NextSeq]_vars

\* ============================================================ gen_changelog
\* ------------------------------------------------------ semver's ordering
\* the characters of tag names in byte order
ByteOrder == <<"+", "-", ".", "0", "1", "2", "3", "4", "5", "6", "7", "8",
               "9", "a", "b", "v">>
ByteRank(c) == CHOOSE i \in 1..Len(ByteOrder) : ByteOrder[i] = c

\* Ordering::then
Then(o1, o2) == IF o1 # "Equal" THEN o1 ELSE o2

\* Ord for usize
IntCmp(m, n) == IF m < n THEN "Less" ELSE IF m > n THEN "Greater" ELSE "Equal"

RECURSIVE StrCmp(_, _)
\* Ord for str: byte by byte, a proper prefix is the smaller
StrCmp(a, b) ==
    IF a = <<>> THEN (IF b = <<>> THEN "Equal" ELSE "Less")
    ELSE IF b = <<>> THEN "Greater"
    ELSE IF a[1] # b[1] THEN IntCmp(ByteRank(a[1]), ByteRank(b[1]))
    ELSE StrCmp(Tail(a), Tail(b))

\* Ord for u64, on canonical decimal strings
NumCmp(a, b) ==
    IF a = b THEN "Equal" ELSE IF DecLeq(a, b) THEN "Less" ELSE "Greater"

RECURSIVE PreIdentsCmp(_, _)
\* the loop of Ord for Prerelease over the dot-separated identifiers
PreIdentsCmp(l, r) ==
    IF l = <<>> THEN (IF r = <<>> THEN "Equal" ELSE "Less")
    ELSE IF r = <<>> THEN "Greater"
    ELSE LET x == l[1]
             y == r[1]
             o == IF AllDigits(x) /\ AllDigits(y)
                  THEN Then(IntCmp(Len(x), Len(y)), StrCmp(x, y))
                  ELSE IF AllDigits(x) THEN "Less"
                  ELSE IF AllDigits(y) THEN "Greater"
                  ELSE StrCmp(x, y)
         IN  IF o # "Equal" THEN o ELSE PreIdentsCmp(Tail(l), Tail(r))

\* Ord for Prerelease: a release is greater than any of its prereleases
Prerelease_cmp(a, b) ==
    IF a = <<>> THEN (IF b = <<>> THEN "Equal" ELSE "Greater")
    ELSE IF b = <<>> THEN "Less"
    ELSE PreIdentsCmp(SplitOn(a, "."), SplitOn(b, "."))

RECURSIVE TrimZeros(_)
\* str::trim_start_matches('0')
TrimZeros(s) == IF s # <<>> /\ s[1] = "0" THEN TrimZeros(Tail(s)) ELSE s

RECURSIVE BuildIdentsCmp(_, _)
\* the loop of Ord for BuildMetadata: 0 < 00 < 1 < 01 < 2 < 10, digits below
\* everything else
BuildIdentsCmp(l, r) ==
    IF l = <<>> THEN (IF r = <<>> THEN "Equal" ELSE "Less")
    ELSE IF r = <<>> THEN "Greater"
    ELSE LET x == l[1]
             y == r[1]
             o == IF AllDigits(x) /\ AllDigits(y)
                  THEN Then(IntCmp(Len(TrimZeros(x)), Len(TrimZeros(y))),
                            Then(StrCmp(TrimZeros(x), TrimZeros(y)),
                                 IntCmp(Len(x), Len(y))))
                  ELSE IF AllDigits(x) THEN "Less"
                  ELSE IF AllDigits(y) THEN "Greater"
                  ELSE StrCmp(x, y)
         IN  IF o # "Equal" THEN o ELSE BuildIdentsCmp(Tail(l), Tail(r))

\* Ord for BuildMetadata
BuildMetadata_cmp(a, b) == BuildIdentsCmp(SplitOn(a, "."), SplitOn(b, "."))

\* Ord for Version, derived field by field: major, minor, patch, pre, build
Version_cmp(a, b) ==
    Then(NumCmp(a.major, b.major),
    Then(NumCmp(a.minor, b.minor),
    Then(NumCmp(a.patch, b.patch),
    Then(Prerelease_cmp(a.pre, b.pre),
         BuildMetadata_cmp(a.build, b.build)))))

\* ---------------------------------------------------------- version tags
RECURSIVE references_tags(_)
\* repo.references()?.tags()?: the tag references in the order of their names
references_tags(refs) ==
    IF refs = {} THEN <<>>
    ELSE LET t == CHOOSE t \in refs :
                    \A u \in refs : StrCmp(t.name, u.name) # "Greater"
         IN  <<t>> \o references_tags(refs \ {t})

\* name.strip_prefix('v').unwrap_or(&name)
strip_prefix_v(name) ==
    IF name # <<>> /\ name[1] = "v" THEN Tail(name) ELSE name

RECURSIVE version_tags(_)
\* the loop of sorted_version_tags: the pairs (version, name) of the tags
\* whose name parses, in iteration order
version_tags(rs) ==
    IF rs = <<>> THEN <<>>
    ELSE LET name == rs[1].name
             p == Version_parse(strip_prefix_v(name))
         IN  (IF p.ok THEN <<[v |-> p.v, name |-> name]>> ELSE <<>>)
               \o version_tags(Tail(rs))

tag_order_Ascending(a, b) == Version_cmp(a.v, b.v)

\* the comparator |a, b| b.0.cmp(&a.0)
tag_order(a, b) == Version_cmp(b.v, a.v)

\* where a stable sort places e among the already sorted elements: behind
\* everything that does not compare greater
Insert(sorted, e) ==
    LET later == {i \in 1..Len(sorted) : tag_order(sorted[i], e) = "Greater"}
        at == IF later = {} THEN Len(sorted) + 1
              ELSE CHOOSE i \in later : \A j \in later : i <= j
    IN  SubSeq(sorted, 1, at - 1) \o <<e>> \o SubSeq(sorted, at, Len(sorted))

RECURSIVE sort_by(_)
\* slice::sort_by, a stable sort
sort_by(s) ==
    IF s = <<>> THEN <<>>
    ELSE Insert(sort_by(SubSeq(s, 1, Len(s) - 1)), s[Len(s)])

sorted_version_tags(refs) == sort_by(version_tags(references_tags(refs)))

\* ------------------------------------------------------- tags and HEAD
\* an object id below zero is the annotated tag object that wraps commit -id
peel_to_commit_Unpeeled(id) == id

\* object.peel_to_kind(Kind::Commit)
peel_to_commit(id) == IF id < 0 THEN 0 - id ELSE id

Ok(x) == [ok |-> TRUE, val |-> x, err |-> "-"]
Err(e) == [ok |-> FALSE, val |-> <<>>, err |-> e]

RECURSIVE first_on(_, _)
\* the loop of detect_current_tag: the first tag whose peeled target is at
first_on(rs, at) ==
    IF rs = <<>> THEN Err("NoTagOnHead")
    ELSE IF peel_to_commit(rs[1].target) = at THEN Ok(rs[1].name)
    ELSE first_on(Tail(rs), at)

\* detect_current_tag: repo.head_id()? fails on an unborn HEAD
detect_current_tag(refs, head_commit) ==
    IF head_commit = 0 THEN Err("HeadUnborn")
    ELSE first_on(references_tags(refs), head_commit)

RECURSIVE find(_, _)
\* Iterator::find(|name| name != current_tag) over the names
find(sorted, current_tag) ==
    IF sorted = <<>> THEN None
    ELSE IF sorted[1].name # current_tag THEN Some(sorted[1].name)
    ELSE find(Tail(sorted), current_tag)

find_previous_tag(refs, current_tag) ==
    find(sorted_version_tags(refs), current_tag)

\* resolve_tag: find_reference("refs/tags/{tag}")?, then the peeled commit
resolve_tag(refs, tag) ==
    IF \E t \in refs : t.name = tag
    THEN [ok |-> TRUE,
          id |-> peel_to_commit((CHOOSE t \in refs : t.name = tag).target)]
    ELSE [ok |-> FALSE, id |-> 0]

\* ------------------------------------------------------- the commit walk
\* the first seven hex digits of a commit id, one token per commit
ShortIds == <<"c1", "c2", "c3", "c4", "c5", "c6", "c7", "c8">>

\* the walk going on through the last parent
first_parent_Last(g, c) ==
    IF g[c].parents = <<>> THEN 0 ELSE g[c].parents[Len(g[c].parents)]

\* first_parent_only(): the commit the walk visits after c, 0 at a root
first_parent(g, c) == IF g[c].parents = <<>> THEN 0 ELSE g[c].parents[1]

\* first_line.starts_with("Merge ")
starts_with_Merge(first_line) == first_line # <<>> /\ first_line[1] = "M"

\* format!("{} {}", short_id, first_line)
format_line(g, c) == <<ShortIds[c], " ">> \o g[c].first_line

RECURSIVE walk_BoundaryAfterEmit(_, _, _, _, _)
RECURSIVE walk(_, _, _, _, _)
walk_BoundaryAfterEmit(g, c, stop_at, max_commits, lines) ==
    IF c = 0 THEN lines
    ELSE IF Len(lines) >= max_commits THEN lines
    ELSE LET out == IF starts_with_Merge(g[c].first_line) THEN lines
                    ELSE Append(lines, format_line(g, c))
         IN  IF c = stop_at THEN out
             ELSE walk_BoundaryAfterEmit(g, first_parent(g, c), stop_at,
                                         max_commits, out)

\* the loop of get_git_log from commit c on (0: the chain has ended);
\* stop_at is 0 when there is no previous tag
walk(g, c, stop_at, max_commits, lines) ==
    IF c = 0 THEN lines
    ELSE IF c = stop_at THEN lines
    ELSE IF Len(lines) >= max_commits THEN lines
    ELSE IF starts_with_Merge(g[c].first_line)
    THEN walk(g, first_parent(g, c), stop_at, max_commits, lines)
    ELSE walk(g, first_parent(g, c), stop_at, max_commits,
              Append(lines, format_line(g, c)))

RECURSIVE join(_, _)
\* [String]::join(sep)
join(pieces, sep) ==
    IF pieces = <<>> THEN <<>>
    ELSE IF Len(pieces) = 1 THEN pieces[1]
    ELSE pieces[1] \o <<sep>> \o join(Tail(pieces), sep)

get_git_log_EmptyIsOk(g, refs, head_commit, prev_tag, max_commits) ==
    LET stop == IF prev_tag.some THEN resolve_tag(refs, prev_tag.val)
                ELSE [ok |-> TRUE, id |-> 0]
    IN  IF head_commit = 0 THEN Err("HeadUnborn")
        ELSE IF ~stop.ok THEN Err("TagNotFound")
        ELSE Ok(walk(g, head_commit, stop.id, max_commits, <<>>))

\* get_git_log: the lines, or the error
get_git_log(g, refs, head_commit, prev_tag, max_commits) ==
    LET stop == IF prev_tag.some THEN resolve_tag(refs, prev_tag.val)
                ELSE [ok |-> TRUE, id |-> 0]
        lines == walk(g, head_commit, stop.id, max_commits, <<>>)
    IN  IF head_commit = 0 THEN Err("HeadUnborn")
        ELSE IF ~stop.ok THEN Err("TagNotFound")
        ELSE IF lines = <<>> THEN Err("NoCommitsFound")
        ELSE Ok(lines)

\* ----------------------------------------------------- the summarization
\* the text of a summary, "T" standing for a run of text
Text_Summary == <<"T", "\n", "T">>

\* what the Messages endpoint can do with the request: the request fails in
\* transport or with an error status, the body is not the expected JSON, or
\* it is, with or without an `error` object and a text block
Responses ==
    {[send |-> "Transport", json |-> FALSE, error |-> FALSE, text |-> None],
     [send |-> "Status", json |-> FALSE, error |-> FALSE, text |-> None],
     [send |-> "Ok", json |-> FALSE, error |-> FALSE, text |-> None]}
    \cup [send : {"Ok"}, json : {TRUE}, error : BOOLEAN,
          text : {None, Some(<<>>), Some(Text_Summary)}]

call_claude_EmptyIsOk(resp) ==
    IF resp.send # "Ok" THEN Err(resp.send)
    ELSE IF ~resp.json THEN Err("Parse")
    ELSE IF resp.error THEN Err("ApiError")
    ELSE Ok(resp.text.val)

\* call_claude: send_json?, read_json?, the error object, the first text
\* block (unwrap_or_default), empty text
call_claude(resp) ==
    IF resp.send # "Ok" THEN Err(resp.send)
    ELSE IF ~resp.json THEN Err("Parse")
    ELSE IF resp.error THEN Err("ApiError")
    ELSE IF resp.text.val = <<>> THEN Err("EmptyResponse")
    ELSE Ok(resp.text.val)

\* str::lines: the pieces between newlines, without a last empty one
str_lines(s) ==
    LET pieces == SplitOn(s, "\n")
    IN  IF pieces[Len(pieces)] = <<>>
        THEN SubSeq(pieces, 1, Len(pieces) - 1) ELSE pieces

\* prev_tag.as_deref().unwrap_or("initial"), "I" standing for `initial`
prev_tag_str(prev_tag) == IF prev_tag.some THEN prev_tag.val ELSE <<"I">>

fallback_NoBullets(prev_tag, git_log) ==
    <<"H">> \o prev_tag_str(prev_tag) \o <<"\n", "\n">> \o git_log

\* the Err arm of main's match, "H" standing for `## Changes since `
fallback(prev_tag, git_log) ==
    LET ls == str_lines(git_log)
    IN  <<"H">> \o prev_tag_str(prev_tag) \o <<"\n", "\n">>
          \o join([i \in 1..Len(ls) |-> <<"-", " ">> \o ls[i]], "\n")

\* ------------------------------------------------------ the repositories
\* the parents of each commit: a straight history; a history where commit 4
\* merges the side commit 3 into the main line 1-2; the same with the side
\* commit as first parent
Shape_Linear == << <<>>, <<1>>, <<2>>, <<3>>, <<4>> >>
Shape_Merge == << <<>>, <<1>>, <<1>>, <<2, 3>>, <<4>> >>
Shape_MergeSide == << <<>>, <<1>>, <<1>>, <<3, 2>>, <<4>> >>
Shapes == {Shape_Linear, Shape_Merge, Shape_MergeSide}

\* the histories of a shape: each commit with an ordinary message or one
\* that starts with `Merge `, at most MaxMergeMsgs of the latter
GraphsOf(shape) ==
    {[c \in 1..Len(shape) |->
        [parents |-> shape[c],
         first_line |-> IF c \in ms THEN Msg_Merge ELSE Msg_Plain]] :
     ms \in {m \in SUBSET (1..Len(shape)) : Cardinality(m) <= MaxMergeMsgs}}

LogGraphs == UNION {GraphsOf(shape) : shape \in Shapes}

Tag_v1_0_0 == <<"v", "1", ".", "0", ".", "0">>
Tag_1_0_0 == <<"1", ".", "0", ".", "0">>
Tag_1_1_0 == <<"1", ".", "1", ".", "0">>
Tag_v2_0_0 == <<"v", "2", ".", "0", ".", "0">>
Tag_2_0_0_a == <<"2", ".", "0", ".", "0", "-", "a">>
Tag_1_1_0_b2 == <<"1", ".", "1", ".", "0", "+", "2">>
Tag_1_1_0_b3 == <<"1", ".", "1", ".", "0", "+", "3">>
Tag_vv1_0_0 == <<"v", "v", "1", ".", "0", ".", "0">>
Tag_v1_0 == <<"v", "1", ".", "0">>

\* the tags a repository may hold: lightweight on a commit, or annotated
TagPool ==
    {[name |-> Tag_v1_0_0, target |-> 1],
     [name |-> Tag_1_0_0, target |-> 1],
     [name |-> Tag_1_1_0, target |-> 2],
     [name |-> Tag_1_1_0_b2, target |-> 2],
     [name |-> Tag_1_1_0_b3, target |-> 3],
     [name |-> Tag_2_0_0_a, target |-> 3],
     [name |-> Tag_v2_0_0, target |-> 0 - 4],
     [name |-> Tag_vv1_0_0, target |-> 5],
     [name |-> Tag_v1_0, target |-> 0 - 5]}

\* what refs/tags holds where the histories vary
LogTagSets ==
    {{},
     {[name |-> Tag_v1_0_0, target |-> 1]},
     {[name |-> Tag_v1_0_0, target |-> 1], [name |-> Tag_1_1_0, target |-> 2]},
     {[name |-> Tag_1_1_0, target |-> 2], [name |-> Tag_v2_0_0, target |-> 0 - 4]},
     {[name |-> Tag_1_1_0, target |-> 2], [name |-> Tag_2_0_0_a, target |-> 3]},
     {[name |-> Tag_v1_0_0, target |-> 1], [name |-> Tag_vv1_0_0, target |-> 5]}}

InitChangelog(graphs, tagsets) ==
    /\ pubspec = Pubspec_Plain
    /\ readable = TRUE
    /\ overflow_checks = FALSE
    /\ inv = [p \in Procs |-> IdleInv]
    /\ runs = 0
    /\ created = {}
    /\ in_repo \in BOOLEAN
    /\ graph \in graphs
    /\ head \in 0..Len(graph)
    /\ tags \in tagsets
    \* outside a repository there is nothing, and HEAD is unborn only in a
    \* repository without commits
    /\ (~in_repo => graph = <<>>)
    /\ (head = 0 <=> graph = <<>>)
    /\ (graph = <<>> => tags = {})
    /\ cl = IdleLog

\* histories of every shape under a few sets of tags
InitLog == InitChangelog(LogGraphs \cup {<<>>}, LogTagSets)

\* every small set of tags on a straight history
InitTags ==
    InitChangelog({LinearGraph(Len(Shape_Linear)), <<>>},
                  {ts \in SUBSET TagPool : Cardinality(ts) <= MaxTags})

\* ------------------------------------------------------ main's steps
SetLog(r) == cl' = r
LogUnchanged ==
    UNCHANGED <<pubspec, readable, in_repo, head, tags, overflow_checks, inv,
                runs, created, graph>>

\* main fails: the error goes to stderr and the process exits
Fail(e) == SetLog([cl EXCEPT !.pc = "done", !.result = e])

\* main up to gix::discover: the API key from --api-key or the environment,
\* the language, the repository
LogStart ==
    /\ cl.pc = "idle"
    /\ \E api_key \in {"Some", "None"}, lang_ok \in BOOLEAN :
         LET r == [cl EXCEPT !.api_key = api_key]
         IN  SetLog(IF api_key = "None"
                    THEN [r EXCEPT !.pc = "done", !.result = "NoApiKey"]
                    ELSE IF ~lang_ok
                    THEN [r EXCEPT !.pc = "done", !.result = "UnknownLanguage"]
                    ELSE IF ~in_repo
                    THEN [r EXCEPT !.pc = "done", !.result = "Discover"]
                    ELSE [r EXCEPT !.pc = "tag"])
    /\ LogUnchanged

\* the tags --tag may name: those of the repository and one that is none
TagArgs == {t.name : t \in tags} \cup {Tag_v1_0}

\* current_tag: --tag as given, otherwise detect_current_tag
CurrentTag ==
    /\ cl.pc = "tag"
    /\ \E tag \in {None} \cup {Some(t) : t \in TagArgs} :
         IF tag.some
         THEN SetLog([cl EXCEPT !.pc = "prev", !.tag = tag,
                                !.current_tag = tag])
         ELSE LET d == detect_current_tag(tags, head)
              IN  IF d.ok
                  THEN SetLog([cl EXCEPT !.pc = "prev",
                                         !.current_tag = Some(d.val)])
                  ELSE Fail(d.err)
    /\ LogUnchanged

\* prev_tag = find_previous_tag(&repo, &current_tag)
PreviousTag ==
    /\ cl.pc = "prev"
    /\ SetLog([cl EXCEPT !.pc = "log",
                         !.sorted = sorted_version_tags(tags),
                         !.prev_tag = find_previous_tag(tags, cl.current_tag.val)])
    /\ LogUnchanged

\* git_log = get_git_log(&repo, prev_tag, args.max_commits)?
GitLog ==
    /\ cl.pc = "log"
    /\ \E max_commits \in 0..MaxCap :
         LET r == get_git_log(graph, tags, head, cl.prev_tag, max_commits)
             stop == IF cl.prev_tag.some /\ head # 0
                     THEN resolve_tag(tags, cl.prev_tag.val).id ELSE 0
         IN  IF r.ok
             THEN SetLog([cl EXCEPT !.pc = "call", !.max_commits = max_commits,
                                    !.stop_at = stop, !.lines = r.val,
                                    !.git_log = join(r.val, "\n")])
             ELSE SetLog([cl EXCEPT !.pc = "done", !.max_commits = max_commits,
                                    !.stop_at = stop, !.result = r.err])
    /\ LogUnchanged

\* changelog = match call_claude(..) { Ok(text) => text, Err(_) => fallback }
Summarize ==
    /\ cl.pc = "call"
    /\ \E resp \in Responses :
         LET r == call_claude(resp)
         IN  SetLog([cl EXCEPT !.pc = "out", !.outcome = resp,
                       !.changelog = IF r.ok THEN r.val
                                     ELSE fallback(cl.prev_tag, cl.git_log)])
    /\ LogUnchanged

\* println!("{}", changelog)
Output ==
    /\ cl.pc = "out"
    /\ SetLog([cl EXCEPT !.pc = "done", !.printed = TRUE, !.result = "Ok"])
    /\ LogUnchanged

NextLog ==
    LogStart \/ CurrentTag \/ PreviousTag \/ GitLog \/ Summarize \/ Output

SpecLog == InitLog /\ [][NextLog]_vars
SpecTags == InitTags /\ [][NextLog]_vars

\* ------------------------------------------- both scripts on one repository
\* a readable manifest in a repository, its version tagged by hand or not
InitBoth ==
    /\ pubspec = Pubspec_Plain
    /\ readable = TRUE
    /\ in_repo = TRUE
    /\ overflow_checks = FALSE
    /\ head \in {0, 1}
    /\ tags \in InitialTags
    /\ (head = 0 => tags = {})
    /\ inv = [p \in Procs |-> IdleInv]
    /\ runs = 0
    /\ created = {}
    /\ graph = LinearGraph(head)
    /\ cl = IdleLog

\* bump invocations one after the other, commits, and a changelog invocation
\* whose steps fall anywhere between theirs
NextBoth ==
    \/ \E p \in Procs : StartSeq(p) \/ Step(p, {"Patch"})
    \/ Commit
    \/ NextLog

SpecBoth == InitBoth /\ [][NextBoth]_vars

\* ================================================================= claims
Names(refs) == {t.name : t \in refs}

\* the other naming form of the same logical version
OtherForm(name) == IF name[1] = "v" THEN Tail(name) ELSE <<"v">> \o name

\* the logical core string of a version: major.minor.patch[-prerelease]
CoreOf(v) ==
    v.major \o <<".">> \o v.minor \o <<".">> \o v.patch
      \o (IF v.pre = <<>> THEN <<>> ELSE <<"-">> \o v.pre)

\* the version has a tag under the bare or the prefixed name
Tagged(core) == core \in Names(tags) \/ (<<"v">> \o core) \in Names(tags)

\* the version that the bump of r parsed from the version line
OldVersion(r) == Version_parse(r.old_version_str)
NewVersion(r) == Version_parse(r.new_version_string)

\* C1: with invocations one after the other, a tag that tag-sync created never
\* stands next to the other naming form of the same version: at most one tag
\* is created per core string, and none where one of the two names existed.
C1_OneTagPerVersion ==
    \A n \in created : OtherForm(n) \notin Names(tags)

\* C1 witness: a second run, preferring the other naming form, found the tag
\* that an earlier run created and created nothing.
C1_Witness ==
    \E p \in Procs :
        /\ inv[p].sync = "AlreadyTagged"
        /\ OtherForm(preferred_tag(inv[p].tag_prefix, inv[p].tag_plain))
             \in created

\* C2: a run gets to resolve HEAD and to create a tag only after both
\* existence checks were made and both answered false; a run in which one of
\* them answered true ended as AlreadyTagged, resolved no HEAD and created
\* nothing.
C2_BothChecksBeforeCreate ==
    \A p \in Procs :
        LET r == inv[p]
        IN  /\ (r.pc \in {"head_id", "create"}
                  \/ r.sync \in {"UnbornHead", "Created", "TagCreationFailed"})
               => (r.exists_plain = "false" /\ r.exists_v = "false")
            /\ (r.exists_plain = "true" \/ r.exists_v = "true")
               => (r.sync = "AlreadyTagged" /\ r.head_id = 0
                     /\ r.pc \in {"main_read", "write", "done"})

\* C2 witness: one run created a tag, another found only the prefixed name and
\* stopped as AlreadyTagged.
C2_Witness ==
    \E p, q \in Procs :
        /\ inv[p].sync = "Created"
        /\ inv[q].exists_plain = "false"
        /\ inv[q].exists_v = "true"

\* C3: two invocations running at the same time never both create a tag for
\* the same logical version, whatever naming form each prefers.
C3_NoTwoCreations ==
    \A p, q \in Procs :
        (p # q /\ inv[p].sync = "Created" /\ inv[q].sync = "Created")
          => inv[p].tag_plain # inv[q].tag_plain

\* C4 as stated: whenever a bump has written the manifest, the version it
\* superseded has a tag, also when tag-sync ended in a skip state.
C4_SupersededIsTagged ==
    \A p \in Procs :
        inv[p].result = "Bumped" => Tagged(CoreOf(OldVersion(inv[p]).v))

\* C4 amended: whenever a bump has written the manifest and its tag-sync did
\* not end in a skip state (it created a tag or found one), the version it
\* superseded has a tag under the bare or the prefixed name.
C4_SupersededIsTaggedUnlessSkipped ==
    \A p \in Procs :
        (inv[p].result = "Bumped" /\ inv[p].sync \in {"Created", "AlreadyTagged"})
          => Tagged(CoreOf(OldVersion(inv[p]).v))

\* C4 witness: the second bump tagged and then superseded the version that the
\* first bump had written.
C4_Witness ==
    /\ runs = 2
    /\ Cardinality(created) = 2
    /\ \E p \in Procs : inv[p].result = "Bumped" /\ inv[p].sync = "Created"

\* C5: every failure of tag-sync before the tag creation (not a repository,
\* unborn HEAD, manifest unreadable, no version, invalid version) ends
\* tag-sync without an error for the bump workflow.
C5_EarlyFailuresSkip ==
    \A p \in Procs :
        inv[p].sync \in {"NotARepo", "UnbornHead", "ReadFailed", "NoVersion",
                         "InvalidVersion"}
          => inv[p].result # "TagSyncError"

\* C6: an invocation whose tag creation failed has ended with that error and
\* never got to read or write the manifest for the bump.
C6_FailedCreateAborts ==
    \A p \in Procs :
        inv[p].sync = "TagCreationFailed"
          => /\ inv[p].pc = "done"
             /\ inv[p].result = "TagSyncError"
             /\ inv[p].content = <<>>
             /\ inv[p].new_content = <<>>

\* C6 witness: an invocation lost the race for the tag name.
C6_Witness == \E p \in Procs : inv[p].sync = "TagCreationFailed"

\* C7: for every valid version and part Major, Minor or Patch the bump yields
\* a version with no prerelease, build "1" and the core (major+1, 0, 0),
\* (major, minor+1, 0) or (major, minor, patch+1).
C7_CoreBumpRule ==
    \A p \in Procs :
        LET r == inv[p]
            old == OldVersion(r).v
        IN  (OldVersion(r).ok /\ r.part \in {"Major", "Minor", "Patch"})
              => /\ NewVersion(r).ok
                 /\ NewVersion(r).v =
                      CASE r.part = "Major" ->
                             [major |-> DecInc(old.major), minor |-> <<"0">>,
                              patch |-> <<"0">>, pre |-> <<>>, build |-> <<"1">>]
                        [] r.part = "Minor" ->
                             [major |-> old.major, minor |-> DecInc(old.minor),
                              patch |-> <<"0">>, pre |-> <<>>, build |-> <<"1">>]
                        [] r.part = "Patch" ->
                             [major |-> old.major, minor |-> old.minor,
                              patch |-> DecInc(old.patch), pre |-> <<>>,
                              build |-> <<"1">>]

\* C8: for every valid version the Build bump sets build to "1" when the build
\* is absent or no decimal integer, to the decimal string of n+1 when it is
\* the integer n, and keeps major, minor, patch and prerelease.
C8_BuildBumpRule ==
    \A p \in Procs :
        LET r == inv[p]
            old == OldVersion(r).v
        IN  (OldVersion(r).ok /\ r.part = "Build")
              => /\ NewVersion(r).ok
                 /\ NewVersion(r).v =
                      [old EXCEPT !.build =
                         IF old.build = <<>> \/ ~AllDigits(old.build)
                         THEN <<"1">>
                         ELSE DecInc(StripZeros(old.build))]

\* C9: a bump that wrote the manifest changed one line only: the texts before
\* and after have the same number of lines, one line of the new text is
\* `version: ` plus the new version, and every other line is as it was.
C9_OnlyVersionLineChanges ==
    \A p \in Procs :
        LET r == inv[p]
            a == SplitOn(r.content, "\n")
            b == SplitOn(r.new_content, "\n")
        IN  r.result = "Bumped"
              => /\ Len(a) = Len(b)
                 /\ \E k \in 1..Len(a) :
                      /\ b[k] = <<"K", " ">> \o r.new_version_string
                      /\ \A j \in 1..Len(a) : j # k => a[j] = b[j]

\* C10: when the text captured from the version line is not semver, the
\* invocation ends with the invalid-semver failure, has prepared no new
\* content and the manifest is as it was read.
C10_InvalidSemverNoWrite ==
    \A p \in Procs :
        LET r == inv[p]
            m == version_line_regex(r.content)
        IN  (/\ r.pc \in {"write", "done"}
             /\ r.result \notin {"TagSyncError", "ReadError"}
             /\ m.found
             /\ ~Version_parse(Trim(Capture(r.content, m))).ok)
              => /\ r.result = "InvalidSemver"
                 /\ r.pc = "done"
                 /\ r.new_content = <<>>
                 /\ pubspec = r.content

\* C10 witness: tag-sync tagged the version that YAML reads, and the bump then
\* failed on the text of the version line.
C10_Witness ==
    \E p \in Procs : inv[p].result = "InvalidSemver" /\ inv[p].sync = "Created"

\* ------------------------------------------------- the changelog's claims
\* find_previous_tag has run: cl.sorted and cl.prev_tag are what it computed
PrevKnown == cl.pc \in {"log", "call", "out"}

\* the name without one leading `v`, if it has one
WithoutV(name) ==
    IF Len(name) > 0 /\ name[1] = "v" THEN SubSeq(name, 2, Len(name)) ELSE name

IsVersionName(name) == Version_parse(WithoutV(name)).ok

\* semver precedence (build metadata left out): a is not lower than b
NotLower(a, b) ==
    \/ ~DecLeq(a.major, b.major)
    \/ a.major = b.major /\ ~DecLeq(a.minor, b.minor)
    \/ a.major = b.major /\ a.minor = b.minor /\ ~DecLeq(a.patch, b.patch)
    \/ /\ a.major = b.major /\ a.minor = b.minor /\ a.patch = b.patch
       /\ Prerelease_cmp(a.pre, b.pre) # "Less"

SortedNames == {cl.sorted[i].name : i \in 1..Len(cl.sorted)}

\* C11: sorted_version_tags returns exactly the tags whose name, without one
\* optional leading `v`, parses as semver, each once and with its version,
\* and every element's version is not lower in precedence than the next one's
C11_SortedVersionTags ==
    PrevKnown =>
      /\ SortedNames = {n \in Names(tags) : IsVersionName(n)}
      /\ Len(cl.sorted) = Cardinality(SortedNames)
      /\ \A i \in 1..Len(cl.sorted) :
           cl.sorted[i].v = Version_parse(WithoutV(cl.sorted[i].name)).v
      /\ \A i \in 1..(Len(cl.sorted) - 1) :
           NotLower(cl.sorted[i].v, cl.sorted[i + 1].v)

\* a tag with an invalid name was left out, a release comes right before its
\* own prerelease, and the sort moved a tag forward
C11_Witness ==
    /\ PrevKnown
    /\ \E n \in Names(tags) : ~IsVersionName(n)
    /\ \E i \in 1..(Len(cl.sorted) - 1) :
         /\ cl.sorted[i].v.major = cl.sorted[i + 1].v.major
         /\ cl.sorted[i].v.minor = cl.sorted[i + 1].v.minor
         /\ cl.sorted[i].v.patch = cl.sorted[i + 1].v.patch
         /\ cl.sorted[i].v.pre = <<>>
         /\ cl.sorted[i + 1].v.pre # <<>>
    /\ \E i \in 1..(Len(cl.sorted) - 1) :
         StrCmp(cl.sorted[i].name, cl.sorted[i + 1].name) = "Greater"

\* two versions with the same numbers and prerelease, whatever their build
SamePrecedence(a, b) ==
    /\ a.major = b.major /\ a.minor = b.minor /\ a.patch = b.patch
    /\ a.pre = b.pre

\* C12: two version tags that differ only in build metadata compare as equal
\* under the comparator of the sort
C12_BuildMetadataIgnored ==
    PrevKnown =>
      \A i, j \in 1..Len(cl.sorted) :
        SamePrecedence(cl.sorted[i].v, cl.sorted[j].v)
          => tag_order(cl.sorted[i], cl.sorted[j]) = "Equal"

\* where current_tag stands in cl.sorted, 0 if nowhere
PositionOfCurrent ==
    IF cl.current_tag.val \in SortedNames
    THEN CHOOSE i \in 1..Len(cl.sorted) : cl.sorted[i].name = cl.current_tag.val
    ELSE 0

\* C13: for a current tag among the version tags, find_previous_tag returns
\* the tag right behind it in the descending order, None for the last one
C13_PreviousIsNextLower ==
    PrevKnown /\ PositionOfCurrent # 0 =>
      cl.prev_tag = IF PositionOfCurrent < Len(cl.sorted)
                    THEN Some(cl.sorted[PositionOfCurrent + 1].name)
                    ELSE None

\* the commit a tag marks, through its tag object if it is annotated
CommitOf(t) == IF t.target < 0 THEN 0 - t.target ELSE t.target
TagsOn(c) == {t \in tags : CommitOf(t) = c}

\* no --tag was given and detect_current_tag has returned
DetectRan ==
    /\ cl.pc \notin {"idle", "tag"}
    /\ ~cl.tag.some
    /\ cl.result \notin {"NoApiKey", "UnknownLanguage", "Discover"}

\* C14: without --tag, the tag detect_current_tag returns marks the HEAD
\* commit (through its tag object if annotated); where HEAD has a commit it
\* fails with the no-tag-on-HEAD error exactly if no tag marks that commit;
\* and when it fails main is over before any commit is walked
C14_DetectCurrentTag ==
    DetectRan =>
      /\ cl.current_tag.some =>
           \E t \in TagsOn(head) : head # 0 /\ t.name = cl.current_tag.val
      /\ head # 0 => (cl.result = "NoTagOnHead" <=> TagsOn(head) = {})
      /\ ~cl.current_tag.some =>
           /\ cl.pc = "done"
           /\ cl.result \in {"NoTagOnHead", "HeadUnborn"}
           /\ cl.sorted = <<>> /\ cl.lines = <<>> /\ cl.git_log = <<>>
           /\ cl.outcome = NoResponse /\ ~cl.printed

\* an annotated tag on HEAD was detected
C14_Witness ==
    /\ DetectRan
    /\ cl.current_tag.some
    /\ \E t \in tags : t.name = cl.current_tag.val /\ t.target < 0

\* get_git_log has walked: cl.lines is what it collected
WalkRan ==
    \/ cl.pc \in {"call", "out"}
    \/ cl.pc = "done" /\ cl.result \in {"Ok", "NoCommitsFound"}

RECURSIVE FirstParentChain(_)
\* c, its first parent, that one's first parent, ... down to a root
FirstParentChain(c) ==
    IF c = 0 THEN <<>>
    ELSE <<c>> \o FirstParentChain(IF Len(graph[c].parents) = 0 THEN 0
                                   ELSE graph[c].parents[1])

\* the commit a line of the log stands for
LineCommit(line) == CHOOSE c \in 1..Len(ShortIds) : ShortIds[c] = line[1]
Emitted == {LineCommit(cl.lines[i]) : i \in 1..Len(cl.lines)}

\* the commit of the previous tag, 0 without one
Boundary ==
    IF cl.prev_tag.some
    THEN CommitOf(CHOOSE t \in tags : t.name = cl.prev_tag.val) ELSE 0

\* the commits of HEAD's first-parent chain from the boundary on, the whole
\* chain's complement being what lies before it
FromBoundaryOn ==
    LET chain == FirstParentChain(head)
    IN  {chain[k] : k \in {k \in 1..Len(chain) :
                             \E j \in 1..k : chain[j] = Boundary}}
BeforeBoundary ==
    LET chain == FirstParentChain(head)
    IN  {chain[k] : k \in 1..Len(chain)} \ FromBoundaryOn

\* C15: the log has no line for the boundary commit nor for a commit behind
\* it on HEAD's first-parent chain
C15_StopsAtBoundary ==
    WalkRan /\ Boundary # 0 =>
      Boundary \notin Emitted /\ Emitted \cap FromBoundaryOn = {}

\* the boundary stopped the walk: it is on the chain behind a commit that was
\* emitted, and the budget was not used up
C15_Witness ==
    /\ WalkRan
    /\ Boundary \in FromBoundaryOn
    /\ Boundary # head
    /\ cl.lines # <<>>
    /\ Len(cl.lines) < cl.max_commits

\* a merge: more than one parent, or a first line that starts with `Merge `
IsMerge(c) ==
    \/ Len(graph[c].parents) > 1
    \/ (graph[c].first_line # <<>> /\ graph[c].first_line[1] = "M")

\* C16: the log has no line for a merge commit
C16_NoMergeLines == WalkRan => \A c \in Emitted : ~IsMerge(c)

Min(m, n) == IF m <= n THEN m ELSE n

\* C17: with k commits before the boundary on the first-parent chain that are
\* no merges, the log has exactly min(k, max_commits) lines
C17_BudgetCountsLines ==
    WalkRan =>
      Len(cl.lines) =
        Min(Cardinality({c \in BeforeBoundary : ~IsMerge(c)}), cl.max_commits)

\* C18: get_git_log fails with the no-commits error exactly when the walk
\* has produced no line, and then main is over: no call of the API, no output
C18_NoCommitsFound ==
    /\ WalkRan => (cl.result = "NoCommitsFound" <=> cl.lines = <<>>)
    /\ cl.result = "NoCommitsFound" =>
         /\ WalkRan /\ cl.pc = "done"
         /\ cl.outcome = NoResponse /\ cl.changelog = <<>> /\ ~cl.printed

\* the walk visited commits, with budget, and each of them was skipped
C18_Witness ==
    /\ cl.result = "NoCommitsFound"
    /\ cl.max_commits > 0
    /\ BeforeBoundary # {}

\* the match on call_claude's result is over: cl.changelog is what it gave
SummarizeRan == cl.pc = "out" \/ (cl.pc = "done" /\ cl.result = "Ok")

\* the response carries a text that is not empty, and nothing went wrong
HasText(resp) ==
    /\ resp.send = "Ok" /\ resp.json /\ ~resp.error
    /\ resp.text.some /\ resp.text.val # <<>>

\* text is the header that names the previous tag (`initial` without one),
\* an empty line, then one line `- ` + l for each line l of the log, in order
IsFallback(text) ==
    LET ls == SplitOn(text, "\n")
    IN  /\ Len(ls) = 2 + Len(cl.lines)
        /\ ls[1] = <<"H">> \o (IF cl.prev_tag.some THEN cl.prev_tag.val
                               ELSE <<"I">>)
        /\ ls[2] = <<>>
        /\ \A i \in 1..Len(cl.lines) : ls[i + 2] = <<"-", " ">> \o cl.lines[i]

\* C19: whenever the summarization call fails, the changelog is the header
\* naming the previous tag followed by one unchanged bullet per log line
C19_FallbackShape ==
    SummarizeRan /\ ~HasText(cl.outcome) => IsFallback(cl.changelog)

\* the call failed in a repository without previous tag and the log had
\* several lines
C19_Witness ==
    /\ SummarizeRan
    /\ ~HasText(cl.outcome)
    /\ ~cl.prev_tag.some
    /\ Len(cl.lines) >= 2
    /\ cl.printed

\* C20: whatever the response, the match yields a changelog and no error: the
\* text itself when there is one, the fallback otherwise, and it is printed
C20_EveryOutcomeComposes ==
    /\ SummarizeRan =>
         /\ cl.outcome \in Responses
         /\ IF HasText(cl.outcome) THEN cl.changelog = cl.outcome.text.val
            ELSE IsFallback(cl.changelog)
         /\ cl.changelog # <<>>
         /\ cl.result \in {"-", "Ok"}
    /\ cl.outcome # NoResponse => SummarizeRan /\ cl.lines # <<>>
    /\ cl.pc = "done" /\ cl.outcome # NoResponse => cl.printed

\* a response with text was printed as it came
C20_Witness ==
    /\ cl.pc = "done"
    /\ HasText(cl.outcome)
    /\ cl.changelog = Text_Summary
    /\ cl.printed

\* ------------------------------------------------ both scripts' claims
\* C21: no step deletes a tag or changes its target; a step that changes
\* refs/tags adds one tag under a new name, and it is tag-sync's creation
C21_TagsOnlyAdded ==
    [][/\ \A t \in tags : t \in tags'
       /\ tags' # tags =>
            /\ Cardinality(tags' \ tags) = 1
            /\ \A t \in tags' \ tags : t.name \notin Names(tags)
            /\ cl' = cl
            /\ \E p \in Procs : /\ inv[p].pc = "create"
                                /\ inv'[p].sync = "Created"]_vars

\* tag-sync has added a tag next to one made by hand, and a changelog
\* invocation has run to its end on the repository
C21_Witness ==
    /\ created # {}
    /\ \E t \in tags : t.name \notin created
    /\ cl.pc = "done"
    /\ cl.result = "Ok"

\* the version in the manifest, as tag-sync reads it
ManifestVersion == Version_parse(read_pubspec_version(pubspec).val).v

\* C22: the step in which tag-sync creates a tag leaves the manifest as it
\* is, with the pre-bump version still in it and no write of this invocation
\* behind it; the new name is that version's major.minor.patch[-prerelease],
\* with `v` in front exactly under the prefixed preference; the target is the
\* commit tag-sync resolved HEAD to, which was HEAD when it did; and a write
\* of the manifest comes only after tag-sync has ended
C22_TagBeforeWrite ==
    [][/\ \A p \in Procs :
            inv[p].pc = "create" /\ tags' # tags =>
              /\ pubspec' = pubspec
              /\ inv[p].new_content = <<>> /\ inv[p].result = "-"
              /\ tags' \ tags =
                   {[name |-> (IF inv[p].tag_prefix = "V" THEN <<"v">>
                               ELSE <<>>) \o CoreOf(ManifestVersion),
                     target |-> inv[p].head_id]}
       /\ \A p \in Procs :
            inv[p].pc = "head_id" /\ inv'[p].pc = "create" =>
              inv'[p].head_id = head /\ head # 0
       /\ \A p \in Procs :
            inv[p].pc = "write" /\ pubspec' # pubspec =>
              inv[p].sync # "-" /\ inv[p].pc # "create"]_vars

\* a prefixed tag was created for a version with prerelease and build
\* metadata, and the manifest has been written since
C22_Witness ==
    \E p \in Procs :
      /\ inv[p].sync = "Created"
      /\ inv[p].result = "Bumped"
      /\ inv[p].tag_prefix = "V"
      /\ inv[p].version_str = <<"1", ".", "2", ".", "3", "-", "a", "+", "b">>
      /\ <<"v", "1", ".", "2", ".", "3", "-", "a">> \in created

\* where commit c stands on HEAD's first-parent chain, 0 if it is not on it
ChainPosition(c) ==
    LET chain == FirstParentChain(head)
    IN  IF \E k \in 1..Len(chain) : chain[k] = c
        THEN CHOOSE k \in 1..Len(chain) : chain[k] = c
        ELSE 0

\* C23: every line of the log stands for a commit on HEAD's first-parent
\* chain, and the lines follow that chain from HEAD downwards
C23_FirstParentChainOnly ==
    WalkRan =>
      /\ \A c \in Emitted : ChainPosition(c) # 0
      /\ \A i, j \in 1..Len(cl.lines) :
           i < j => ChainPosition(LineCommit(cl.lines[i]))
                      < ChainPosition(LineCommit(cl.lines[j]))

\* the walk went through a commit with two parents and on to its first
\* parent, and the second parent has no line
C23_Witness ==
    /\ WalkRan
    /\ \E m \in Emitted :
         /\ Len(graph[m].parents) = 2
         /\ graph[m].parents[1] \in Emitted
         /\ graph[m].parents[2] \notin Emitted
         /\ ChainPosition(graph[m].parents[2]) = 0

\* the version on the manifest's version line
WrittenVersion == Trim(Capture(pubspec, version_line_regex(pubspec)))

\* C24: when two invocations have both written their bump, one of them
\* bumped from the version the other one wrote, and the manifest holds its
\* result: the outcome of running the two one after the other in some order
C24_NoLostBump ==
    \A p, q \in Procs :
      /\ p # q
      /\ inv[p].pc = "done" /\ inv[p].result = "Bumped"
      /\ inv[q].pc = "done" /\ inv[q].result = "Bumped"
      => \E a, b \in {p, q} :
           /\ a # b
           /\ inv[b].old_version_str = inv[a].new_version_string
           /\ WrittenVersion = inv[b].new_version_string

\* C25: an invocation whose tag-sync created the tag for version V does not
\* then fail on an invalid version or a missing version line, and the version
\* its bump step parses is V
C25_SameVersionRead ==
    \A p \in Procs :
      inv[p].sync = "Created" /\ inv[p].pc \in {"write", "done"} =>
        /\ inv[p].result \notin {"InvalidSemver", "NoVersionLine"}
        /\ inv[p].old_version_str = inv[p].version_str

\* the tags that --tag names
NamedByTag == {t \in tags : cl.tag.some /\ t.name = cl.tag.val}

RECURSIVE ChainFrom(_)
\* commit c and its first-parent ancestors
ChainFrom(c) ==
    IF c = 0 THEN {}
    ELSE {c} \cup ChainFrom(IF Len(graph[c].parents) = 0 THEN 0
                            ELSE graph[c].parents[1])

\* C26: with --tag naming a tag whose commit is not HEAD, every commit of the
\* log is that tag's commit or one of its first-parent ancestors
C26_RangeEndsAtGivenTag ==
    WalkRan =>
      \A t \in NamedByTag :
        CommitOf(t) # head => Emitted \subseteq ChainFrom(CommitOf(t))

\* C27: the previous tag is never the other naming form of the current tag
C27_PreviousIsAnotherVersion ==
    PrevKnown /\ cl.prev_tag.some =>
      WithoutV(cl.prev_tag.val) # WithoutV(cl.current_tag.val)

\* C28: an invocation without credential is not ended by the missing
\* credential, and where its log has lines it ends with the fallback printed
C28_NoCredentialFallsBack ==
    cl.pc = "done" /\ cl.api_key = "None" =>
      /\ cl.result # "NoApiKey"
      /\ cl.lines # <<>> => cl.printed /\ IsFallback(cl.changelog)
====
